---------------------------- MODULE Spec2Model ----------------------------
(***************************************************************************)
(* Model of the concall results bot (src/concall.py): the poll cycle       *)
(* run_job, the extraction of feed items, the day-scoped novelty filter    *)
(* over the SQLite table sent_companies, and the per-event delivery        *)
(* sequence image -> document (or text-link fallback) -> mark sent.        *)
(*                                                                         *)
(* Strings are sequences of one-character strings, so that slicing,        *)
(* lower-casing and the concatenation that builds the composite key are    *)
(* computed as the code computes them.                                     *)
(***************************************************************************)
EXTENDS Integers, Sequences, FiniteSets, TLC

(***************************************************************************)
(* Bounds of the model.                                                    *)
(***************************************************************************)
\* longest feed payload (number of events of the eventList) the feed returns
MaxFeed == 2
\* calendar days the run spans (days are numbered 1..MaxDay)
MaxDay == 2
\* longest payload handed to extract_companies on its own
MaxBatch == 3
\* most pieces (words, blanks, dots) a name handed to the matcher is made of
MaxPieces == 3
\* most companies of a universe handed to the matcher
MaxUniverse == 2

(***************************************************************************)
(* Program constants.                                                      *)
(***************************************************************************)
\* config.MAX_RETRIES: attempts of fetch_results
MAX_RETRIES == 5
\* stop_after_attempt(3) of send_telegram_image
IMAGE_ATTEMPTS == 3
\* stop_after_attempt(3) of send_telegram_message
MESSAGE_ATTEMPTS == 3
\* stop_after_attempt(2) of send_telegram_document
DOCUMENT_ATTEMPTS == 2
\* stop_after_attempt(3) of download_pdf
DOWNLOAD_ATTEMPTS == 3
\* company_name[:4]: length of the prefix compared with the universe
PREFIX_LEN == 4

(***************************************************************************)
(* Strings.                                                                *)
(***************************************************************************)
\* str.lower() on one character (the letters the model's inputs use)
LowerChar(c) ==
    CASE c = "T" -> "t"
      [] c = "Z" -> "z"
      [] c = "M" -> "m"
      [] OTHER -> c

\* str.lower()
Lower(s) == [k \in 1..Len(s) |-> LowerChar(s[k])]

\* s[:n]
Prefix(s, n) == IF Len(s) <= n THEN s ELSE SubSeq(s, 1, n)

\* the names and texts of the model's inputs
EmptyStr == << >>
Tata == <<"T", "a", "t", "a">>
TataPipeA == <<"T", "a", "t", "a", "|", "a">>
Zeta == <<"Z", "e", "t", "a">>
DescA == <<"a">>
DescB == <<"b">>
DescAPipeB == <<"a", "|", "b">>
LinkU == <<"u">>
LinkV == <<"v">>
\* a JSON null (None), kept apart from every string
Null == <<"null">>

\* self.nifty_500_companies: the reference universe loaded from the CSV
nifty_500_companies == { <<"T", "a", "t", "a", "M">>, <<"t", "a", "t", "a", "s">> }

(***************************************************************************)
(* The feed.  A template is an event of the feed whose date is given       *)
(* relative to the day of the fetch (0: that day, -1: the day before);     *)
(* a feed that is not refreshed over midnight lists events of the day      *)
(* before.                                                                 *)
(***************************************************************************)
Template(cn, an, rel, tm, off, ds, ln) ==
    [companyName |-> cn, assentName |-> an, rel |-> rel, time |-> tm,
     offset |-> off, resultDescription |-> ds, resultLink |-> ln]

Templates ==
    { Template(Tata, EmptyStr, 0, 3, 0, DescAPipeB, EmptyStr),
      Template(TataPipeA, EmptyStr, 0, 1, 0, DescB, EmptyStr),
      Template(Tata, EmptyStr, 0, 2, 2, DescA, LinkU),
      Template(Zeta, EmptyStr, 0, 3, 0, DescB, LinkV),
      Template(Null, EmptyStr, 0, 1, 0, DescA, EmptyStr) }

\* a dateTime that datetime.fromisoformat parses: the date and the hour it
\* writes and its UTC offset in hours (0: the suffix "Z", 2: "+02:00")
Stamp(d, tm, off) == [iso |-> TRUE, date |-> d, time |-> tm, offset |-> off]

\* a dateTime that datetime.fromisoformat rejects (the default '' of a missing
\* field is one)
NotAStamp == [iso |-> FALSE, date |-> 0, time |-> 0, offset |-> 0]

\* the event of the feed a template stands for on day d
Event(t, d) ==
    [companyName |-> t.companyName, assentName |-> t.assentName,
     dateTime |-> Stamp(d + t.rel, t.time, t.offset),
     resultDescription |-> t.resultDescription, resultLink |-> t.resultLink]

RECURSIVE SeqsUpTo(_, _)
\* the sequences of distinct elements of S of length at most n (the feed
\* lists an event once)
SeqsUpTo(S, n) ==
    IF n = 0 THEN { << >> }
    ELSE LET shorter == SeqsUpTo(S, n - 1)
             Longer(s) == { Append(s, x) : x \in S \ { s[k] : k \in 1..Len(s) } }
         IN  shorter \cup UNION { Longer(s) : s \in shorter }

\* the payloads the feed can return on day d
Payloads(d) == SeqsUpTo({ Event(t, d) : t \in Templates }, MaxFeed)

\* an event of an eventList
RawEvent(cn, an, dt, ds, ln) ==
    [companyName |-> cn, assentName |-> an, dateTime |-> dt,
     resultDescription |-> ds, resultLink |-> ln]

\* events for extract_companies on day d: two of today with the same name and
\* description, one that has a universe entry by its alternate name only, one
\* that has none, one without a name, one of the day before, one whose
\* timestamp does not parse and one written an hour before midnight UTC
BatchEvents(d) ==
    { RawEvent(Tata, EmptyStr, Stamp(d, 2, 0), DescA, LinkU),
      RawEvent(Tata, EmptyStr, Stamp(d, 1, 0), DescA, LinkV),
      RawEvent(Zeta, Tata, Stamp(d, 1, 0), DescB, EmptyStr),
      RawEvent(Zeta, EmptyStr, Stamp(d, 3, 0), DescA, EmptyStr),
      RawEvent(EmptyStr, Tata, Stamp(d, 1, 0), DescA, EmptyStr),
      RawEvent(Tata, EmptyStr, Stamp(d - 1, 1, 0), DescB, EmptyStr),
      RawEvent(Tata, EmptyStr, NotAStamp, DescB, LinkU),
      RawEvent(Tata, EmptyStr, Stamp(d, 23, 0), DescB, LinkV) }

\* the payloads handed to extract_companies on day d
Batches(d) == SeqsUpTo(BatchEvents(d), MaxBatch)

(***************************************************************************)
(* Event Extractor (extract_companies, is_today).                          *)
(***************************************************************************)
\* a day filter that keeps the events of earlier days as well
is_not_after_today(date_time, today) == date_time.iso /\ date_time.date <= today

\* is_today: the timestamp parses and its date equals today's date; a
\* timestamp that does not parse is logged and gives False (lines 461-463)
is_today(date_time, today) == date_time.iso /\ date_time.date = today

\* a universe check on the company name alone
NamePrefixMatch(company_name, assent_name) ==
    \E nifty_co \in nifty_500_companies :
      /\ Len(company_name) >= PREFIX_LEN
      /\ Lower(Prefix(company_name, PREFIX_LEN)) = Lower(Prefix(nifty_co, PREFIX_LEN))

\* an extraction that takes every name for a universe entry
NoUniverseCheck(company_name, assent_name) == TRUE

\* lines 494-518: the 4-character prefix of the company name, or of the
\* alternate name, equals the 4-character prefix of a universe entry
PrefixMatch(company_name, assent_name) ==
    LET company_prefix == Lower(Prefix(company_name, PREFIX_LEN))
        assent_prefix  == IF assent_name # EmptyStr
                          THEN Lower(Prefix(assent_name, PREFIX_LEN))
                          ELSE EmptyStr
    IN  \E nifty_co \in nifty_500_companies :
          LET nifty_prefix == Lower(Prefix(nifty_co, PREFIX_LEN))
          IN  \/ Len(company_prefix) >= PREFIX_LEN /\ company_prefix = nifty_prefix
              \/ Len(assent_prefix) >= PREFIX_LEN /\ assent_prefix = nifty_prefix

\* an extraction without the duplicate check
NeverDuplicate(companies, company_name, result_description) == FALSE

\* the duplicate check comparing the name alone
IsDuplicateByName(companies, company_name, result_description) ==
    \E k \in 1..Len(companies) : companies[k].name = company_name

\* lines 526-531: an entry with the same name and description is already kept
IsDuplicate(companies, company_name, result_description) ==
    \E k \in 1..Len(companies) :
        /\ companies[k].name = company_name
        /\ companies[k].description = result_description

\* the entry extract_companies appends for an event (lines 535-540)
Candidate(event) ==
    [name |-> event.companyName, description |-> event.resultDescription,
     resultLink |-> event.resultLink, dateTime |-> event.dateTime]

\* an event passes the day filter, the universe filter and has a name
\* (line 533: an empty name and None are false)
Qualifies(event, today, filter) ==
    /\ is_today(event.dateTime, today)
    /\ (filter => PrefixMatch(event.companyName, event.assentName))
    /\ event.companyName # EmptyStr
    /\ event.companyName # Null

\* line 494: company_name[:4] raises TypeError when the name is None; the
\* line is reached for an event of today when the filter is on
EventRaises(event, today, filter) ==
    /\ is_today(event.dateTime, today)
    /\ filter
    /\ event.companyName = Null

\* extract_companies raises: it has no handler, so the first event that
\* raises ends the call
ExtractRaises(data, today, filter) ==
    \E k \in 1..Len(data) : EventRaises(data[k], today, filter)

RECURSIVE ExtractLoop(_, _, _, _)
\* the loop of extract_companies over the eventList, from event k on
ExtractLoop(events, k, today, filter) ==
    IF k = 0 THEN << >>
    ELSE LET companies == ExtractLoop(events, k - 1, today, filter)
             event == events[k]
         IN  IF /\ Qualifies(event, today, filter)
                /\ ~IsDuplicate(companies, event.companyName, event.resultDescription)
             THEN Append(companies, Candidate(event))
             ELSE companies

\* the order of the sort key x['dateTime']: the timestamps compare as
\* strings, so by the date they write, then the hour, then the suffix
\* ("+02:00" sorts before "Z")
DateTimeLeq(a, b) ==
    \/ a.date < b.date
    \/ a.date = b.date /\ a.time < b.time
    \/ a.date = b.date /\ a.time = b.time /\ a.offset >= b.offset

RECURSIVE SortByDateTime(_)
\* companies.sort(key=lambda x: x['dateTime']): a stable sort
SortByDateTime(companies) ==
    IF companies = << >> THEN << >>
    ELSE LET n == Len(companies)
             last == companies[n]
             front == SortByDateTime(SubSeq(companies, 1, n - 1))
             \* last goes after every entry whose key is <= its key
             pos == Cardinality({ k \in 1..Len(front) :
                                    DateTimeLeq(front[k].dateTime, last.dateTime) })
         IN  SubSeq(front, 1, pos) \o << last >> \o SubSeq(front, pos + 1, Len(front))

\* extract_companies: the list the loop builds, then its sort; the list is
\* bound once, so that the sort works on a value
extract_companies(data, today, filter) ==
    CHOOSE sorted \in { SortByDateTime(companies) :
                          companies \in { ExtractLoop(data, Len(data), today, filter) } } :
        TRUE

(***************************************************************************)
(* Delivery Ledger (DatabaseManager over the table sent_companies).        *)
(***************************************************************************)
\* f"{c['name']}|{c['description']}"
CompositeKey(c) == c.name \o <<"|">> \o c.description

\* the lookup with its WHERE clause left out
get_sent_keys_any_date(rows, date_str) == { r.composite_key : r \in rows }

\* SELECT composite_key FROM sent_companies WHERE date_str = ?
get_sent_keys_for_date(rows, date_str) ==
    { r.composite_key : r \in { x \in rows : x.date_str = date_str } }

\* a lookup whose failure still gives the keys of the day
KeysDespiteReadError(rows, date_str) == get_sent_keys_for_date(rows, date_str)

\* lines 255-257: the except branch of get_sent_keys_for_date returns set()
KeysAfterReadError(rows, date_str) == {}

\* INSERT OR REPLACE of one row: a row with the same key gives way to the new
\* row
InsertOrReplace(rows, c, date_str) ==
    { r \in rows : r.composite_key # CompositeKey(c) }
      \cup { [composite_key |-> CompositeKey(c), company_name |-> c.name,
              description |-> c.description, date_str |-> date_str] }

\* INSERT OR IGNORE of one row: composite_key is the PRIMARY KEY, so a row
\* whose key is already in the table (under any date) is ignored
InsertOrIgnore(rows, c, date_str) ==
    IF \E r \in rows : r.composite_key = CompositeKey(c)
    THEN rows
    ELSE rows \cup { [composite_key |-> CompositeKey(c), company_name |-> c.name,
                      description |-> c.description, date_str |-> date_str] }

RECURSIVE mark_sent(_, _, _)
\* mark_sent: executemany over the list of companies
mark_sent(rows, companies, date_str) ==
    IF companies = << >> THEN rows
    ELSE mark_sent(InsertOrIgnore(rows, Head(companies), date_str),
                   Tail(companies), date_str)

\* get_new_companies, given the keys the ledger lookup returned
get_new_companies(all_companies, sent_keys) ==
    SelectSeq(all_companies, LAMBDA c : CompositeKey(c) \notin sent_keys)

(***************************************************************************)
(* Temporary document file (generate_pdf_filename, lines 723-756).         *)
(***************************************************************************)
\* a character re.sub(r'[^\w\s-]', '', ...) keeps
IsSafeChar(c) == c \notin {"|", ".", "&", ":"}

\* re.sub(r'[^\w\s-]', '', company_name).strip() (the model's names hold no blanks)
SafeName(s) == SelectSeq(s, IsSafeChar)

\* sub in s
Contains(s, sub) ==
    \E k \in 0..(Len(s) - Len(sub)) : SubSeq(s, k + 1, k + Len(sub)) = sub

Consolidated == <<"c", "o", "n", "s", "o", "l", "i", "d", "a", "t", "e", "d">>

\* generate_pdf_filename: company, result type and period.  The three period
\* patterns need the words "ended" or "results", which no description of the
\* model holds, so period_info is the default "Results" (lines 749-750).
generate_pdf_filename(company_name, description) ==
    [company |-> SafeName(company_name),
     result_type |-> IF Contains(Lower(description), Consolidated)
                     THEN "consolidated" ELSE "standalone",
     period |-> "Results"]


(***************************************************************************)
(* Normalizer (normalize_company_name, lines 48-131).  The names of the    *)
(* model are made of the words "tata", "tatas", "zeta", "co", "ltd", of    *)
(* one-letter words, blanks, "." and "|"; the tables below hold the        *)
(* entries of the source's tables that such a name can meet.               *)
(***************************************************************************)
Tatas == <<"t", "a", "t", "a", "s">>
Co == <<"c", "o">>
Ltd == <<"l", "t", "d">>
Company == <<"c", "o", "m", "p", "a", "n", "y">>
Limited == <<"l", "i", "m", "i", "t", "e", "d">>
Dot == <<".">>
Space == <<" ">>

\* [a-z]
LowerLetters ==
    {"a", "b", "c", "d", "e", "f", "g", "h", "i", "j", "k", "l", "m", "n", "o",
     "p", "q", "r", "s", "t", "u", "v", "w", "x", "y", "z"}

\* \w, on the characters of the model: a letter of either case
IsWordChar(c) == LowerChar(c) \in LowerLetters

\* \s
IsSpace(c) == c = " "

RECURSIVE LStrip(_)
LStrip(s) == IF s # << >> /\ IsSpace(Head(s)) THEN LStrip(Tail(s)) ELSE s

RECURSIVE RStrip(_)
RStrip(s) ==
    IF s # << >> /\ IsSpace(s[Len(s)]) THEN RStrip(SubSeq(s, 1, Len(s) - 1)) ELSE s

\* str.strip()
Strip(s) == RStrip(LStrip(s))

\* a \b that holds everywhere
AnyBoundary(s, k) == TRUE

\* \b holds between s[k - 1] and s[k]
Boundary(s, k) ==
    (k > 1 /\ IsWordChar(s[k - 1])) # (k <= Len(s) /\ IsWordChar(s[k]))

\* where a match of \babbr\.?\b (of \babbr\b without dot) that starts at k
\* ends, 0 when there is none; the optional "." is taken when a \b follows it
MatchEnd(s, k, abbr, dot) ==
    LET e == k + Len(abbr)
    IN  IF e - 1 <= Len(s) /\ SubSeq(s, k, e - 1) = abbr /\ Boundary(s, k)
        THEN IF dot /\ e <= Len(s) /\ s[e] = "." /\ Boundary(s, e + 1) THEN e + 1
             ELSE IF Boundary(s, e) THEN e
             ELSE 0
        ELSE 0

RECURSIVE SubFrom(_, _, _, _, _)
\* re.sub(abbr, full, s) from position k on: matches are replaced from left
\* to right and the replacement is not searched again
SubFrom(s, k, abbr, dot, full) ==
    IF k > Len(s) THEN << >>
    ELSE LET e == MatchEnd(s, k, abbr, dot)
         IN  IF e # 0 THEN full \o SubFrom(s, e, abbr, dot, full)
             ELSE << s[k] >> \o SubFrom(s, k + 1, abbr, dot, full)

\* the dict abbreviations (lines 66-111), in its order: r'\bltd\.?\b' and
\* r'\bco\.?\b'
abbreviations ==
    << [abbr |-> Ltd, dot |-> TRUE, full |-> Limited],
       [abbr |-> Co, dot |-> TRUE, full |-> Company] >>

RECURSIVE Expand(_, _)
\* lines 113-114: the loop over the first n abbreviations
Expand(s, n) ==
    IF n = 0 THEN s
    ELSE LET a == abbreviations[n]
         IN  SubFrom(Expand(s, n - 1), 1, a.abbr, a.dot, a.full)

\* the list suffixes (lines 117-121), in its order: r'\s+ltd\.?$',
\* r'\s+limited$', r'\s+company$' and r'\s+co\.?$'
suffixes ==
    << [word |-> Ltd, dot |-> TRUE], [word |-> Limited, dot |-> FALSE],
       [word |-> Company, dot |-> FALSE], [word |-> Co, dot |-> TRUE] >>

\* re.sub(r'\s+word\.?$', '', s): the word at the end, with its "." if it may
\* have one, goes with the blanks before it when there is at least one
RemoveSuffix(s, word, dot) ==
    LET t == IF dot /\ s # << >> /\ s[Len(s)] = "." THEN SubSeq(s, 1, Len(s) - 1)
             ELSE s
        n == Len(t) - Len(word)
    IN  IF /\ n >= 1
           /\ SubSeq(t, n + 1, Len(t)) = word
           /\ IsSpace(t[n])
        THEN RStrip(SubSeq(t, 1, n))
        ELSE s

RECURSIVE RemoveSuffixes(_, _)
\* lines 122-123: the loop over the first n suffixes
RemoveSuffixes(s, n) ==
    IF n = 0 THEN s
    ELSE RemoveSuffix(RemoveSuffixes(s, n - 1), suffixes[n].word, suffixes[n].dot)

\* re.sub(r'[^a-z0-9\s]', '', s)
RemoveSpecial(s) == SelectSeq(s, LAMBDA c : c \in LowerLetters \/ IsSpace(c))

RECURSIVE Collapse(_)
\* re.sub(r'\s+', ' ', s)
Collapse(s) ==
    IF Len(s) <= 1 THEN s
    ELSE IF IsSpace(s[1]) /\ IsSpace(s[2]) THEN Collapse(Tail(s))
    ELSE << s[1] >> \o Collapse(Tail(s))

\* normalize_company_name
normalize_company_name(name) ==
    IF name = EmptyStr \/ name = Null THEN EmptyStr
    ELSE LET lowered == Strip(Lower(name))
             expanded == Expand(lowered, Len(abbreviations))
             cut == RemoveSuffixes(expanded, Len(suffixes))
         IN  Strip(Collapse(RemoveSpecial(cut)))

(***************************************************************************)
(* Identity Matcher (fuzzy_match_company, lines 134-215).  Python's None   *)
(* is Null.  The function iterates over a set and over a dict filled from  *)
(* a set, so where several entries qualify any of them can come first: the *)
(* operators give the set of the results the call can return.              *)
(***************************************************************************)
\* threshold: float = 0.8 (line 135), in hundredths
threshold == 80
\* the length a name needs for the substring strategy (lines 171, 177)
MIN_SUBSTRING == 5

\* stop_words (line 185)
stop_words ==
    { <<"a", "n", "d">>, <<"t", "h", "e">>, <<"o", "f">>, <<"i", "n">>,
      <<"f", "o", "r">>, <<"w", "i", "t", "h">>, <<"o", "n">>, <<"a", "t">>,
      <<"t", "o">>, <<"a">>, <<"a", "n">> }

RECURSIVE Split(_)
\* str.split(): the words between the blanks, as a set
Split(s) ==
    LET t == LStrip(s)
        blanks == { k \in 1..Len(t) : IsSpace(t[k]) }
        n == IF blanks = {} THEN Len(t) + 1
             ELSE CHOOSE k \in blanks : \A j \in blanks : k <= j
    IN  IF t = << >> THEN {}
        ELSE { SubSeq(t, 1, n - 1) } \cup Split(SubSeq(t, n + 1, Len(t)))

\* set(normalized.split()) - stop_words (lines 183-186, 196)
Tokens(normalized) == Split(normalized) \ stop_words

\* the normalized forms of the universe
NormalizedNames(nifty_companies) ==
    { normalize_company_name(company) : company \in nifty_companies }

\* load_nifty_500, lines 376-379: the dict from normalized name to company
\* name; of the companies with one normalized form the last one iterated stays
CompanyMaps(nifty_companies) ==
    { f \in [NormalizedNames(nifty_companies) -> nifty_companies] :
        \A n \in DOMAIN f : normalize_company_name(f[n]) = n }

\* strategy 1 (lines 152-155): the companies equal to the name but for case
ExactMatches(api_name, nifty_companies) ==
    { company \in nifty_companies : Lower(api_name) = Lower(company) }

\* a substring test without the length check
SubstringHitAnyLength(api_normalized, normalized_name) ==
    \/ Contains(normalized_name, api_normalized)
    \/ Contains(api_normalized, normalized_name)

\* lines 170-179: an entry of company_map at which strategy 3 returns
SubstringHit(api_normalized, normalized_name) ==
    IF Contains(normalized_name, api_normalized)
    THEN Len(api_normalized) >= MIN_SUBSTRING
    ELSE /\ Contains(api_normalized, normalized_name)
         /\ Len(normalized_name) >= MIN_SUBSTRING

\* strategy 3 (lines 168-179): the companies of the entries it can return at
SubstringMatches(api_normalized, company_map) ==
    { company_map[n] : n \in { x \in DOMAIN company_map : SubstringHit(api_normalized, x) } }

\* a score above the threshold
ScoreAbove(common, total) == 100 * common > threshold * total

\* line 207: score >= threshold, for score = common / total
ScoreReaches(common, total) == 100 * common >= threshold * total

\* len(common_tokens) for a company (line 202)
CommonTokens(api_tokens, company) ==
    Cardinality(api_tokens \cap Tokens(normalize_company_name(company)))

\* lines 194-209: the companies that can replace best_match
Eligible(api_tokens, nifty_companies) ==
    { company \in nifty_companies :
        /\ CommonTokens(api_tokens, company) > 0
        /\ ScoreReaches(CommonTokens(api_tokens, company), Cardinality(api_tokens)) }

\* strategy 4 (lines 182-215): None without tokens or without an eligible
\* company, else a company of the highest score (the first one iterated)
TokenMatches(api_normalized, nifty_companies) ==
    LET api_tokens == Tokens(api_normalized)
        eligible == Eligible(api_tokens, nifty_companies)
        best == { c \in eligible :
                    \A d \in eligible :
                      CommonTokens(api_tokens, d) <= CommonTokens(api_tokens, c) }
    IN  IF api_tokens = {} \/ eligible = {} THEN { Null } ELSE best

\* a matcher that tries the substring strategy before the normalized one
fuzzy_match_substring_first(api_name, nifty_companies, company_map) ==
    IF api_name = EmptyStr \/ api_name = Null THEN { Null }
    ELSE LET api_normalized == normalize_company_name(api_name)
         IN  IF ExactMatches(api_name, nifty_companies) # {}
             THEN ExactMatches(api_name, nifty_companies)
             ELSE IF SubstringMatches(api_normalized, company_map) # {}
             THEN SubstringMatches(api_normalized, company_map)
             ELSE IF api_normalized \in DOMAIN company_map
             THEN { company_map[api_normalized] }
             ELSE TokenMatches(api_normalized, nifty_companies)

\* fuzzy_match_company: the results the call can return
fuzzy_match_company(api_name, nifty_companies, company_map) ==
    IF api_name = EmptyStr \/ api_name = Null THEN { Null }
    ELSE LET api_normalized == normalize_company_name(api_name)
         IN  IF ExactMatches(api_name, nifty_companies) # {}
             THEN ExactMatches(api_name, nifty_companies)
             ELSE IF api_normalized \in DOMAIN company_map
             THEN { company_map[api_normalized] }
             ELSE IF SubstringMatches(api_normalized, company_map) # {}
             THEN SubstringMatches(api_normalized, company_map)
             ELSE TokenMatches(api_normalized, nifty_companies)

(***************************************************************************)
(* State.                                                                  *)
(***************************************************************************)
VARIABLES
    pc,               \* position of run_job ("idle": no cycle is running)
    NIFTY_FILTER,     \* config.NIFTY_FILTER, read at start-up
    day,              \* today's date in the configured timezone
    ledger,           \* the rows of the table sent_companies
    disk,             \* the files of config.PDF_DOWNLOAD_DIR
    feed,             \* the events the feed lists at present
    data,             \* the payload fetch_results returned (None: none)
    companies,        \* the list extract_companies returned
    new_companies,    \* the list get_new_companies returned
    processed_items,  \* indices (into new_companies) of the rendered events
    idx,              \* position of the running loop
    attempt,          \* attempt number of the running retried call
    outcome,          \* the exception its last attempt raised ("none": none)
    docSent,          \* send_telegram_document returned True
    today_str,        \* today_str of get_new_companies (line 399)
    \* history of the run, read by the properties only
    log,              \* outcomes of the steps of the current cycle, in order
    ledgerAtStart,    \* the ledger when the current cycle started
    \* history across cycles, kept only when monitor is set
    monitor,          \* the history across cycles is kept
    missed,           \* a tick was skipped while the ledger lookup of line 771 runs
    instances,        \* instances of the job run_job the scheduler has running
    straddle,         \* midnight passed while the current cycle was running
    readErr,          \* the ledger lookup of the current cycle failed
    sent1,            \* events whose image was sent today (while ~dayBad)
    sent2,            \* events whose image was sent twice today (while ~dayBad)
    dayBad,           \* today had a ledger error, a cycle running at midnight
                      \* or a cycle that was stopped
    prev,             \* summary of the previous cycle, if it ran today
    repeat,           \* the feed is as a clean previous cycle of today fetched it
    \* a call of fuzzy_match_company and of normalize_company_name
    api_name,         \* the name to match
    nifty_companies,  \* the reference universe handed to the matcher
    company_map,      \* its dict from normalized name to company name
    matched,          \* what fuzzy_match_company returned
    forms             \* the name normalized once, and normalized again

vars == << pc, NIFTY_FILTER, day, ledger, disk, feed, data, companies, new_companies,
           processed_items, idx, attempt, outcome, docSent, today_str, log,
           ledgerAtStart,
           monitor, missed, instances, straddle, readErr, sent1, sent2, dayBad,
           prev, repeat, api_name, nifty_companies, company_map, matched, forms >>

\* data without a payload (None), a value apart from every payload
None == << [none |-> TRUE] >>

\* the classes of telegram.error.TelegramError the sends raise: TimedOut and
\* NetworkError are transient, BadRequest (as Forbidden, InvalidToken) is not
TelegramErrors == {"timed_out", "network", "bad_request"}
TransientErrors == {"timed_out", "network"}
\* the classes the image send is followed through: one transient, one not
ImageErrors == {"network", "bad_request"}

\* the matcher and its universe, off the path of run_job
matcher == << api_name, nifty_companies, company_map, matched, forms >>
\* what no step of run_job changes: the configuration and the matcher
outside == << NIFTY_FILTER, matcher >>
\* the store, the clock and the configuration
env == << outside, day, ledger, disk, feed >>
\* the history a step that only moves run_job leaves alone
hist == << monitor, straddle, readErr, ledgerAtStart, sent1, sent2, dayBad, prev,
          repeat >>
\* the scheduler's view of the job
sched == << missed, instances >>
\* the lists of run_job
lists == << data, companies, new_companies, processed_items, today_str >>

Entry(op, i) == [op |-> op, i |-> i]

\* the event the sending loop is at
Current == new_companies[processed_items[idx]]

\* the log has an entry op for event i
Logged(op, i) == \E k \in 1..Len(log) : log[k].op = op /\ log[k].i = i

\* the (name, description) pair that identifies an event
Pair(c) == << c.name, c.description >>

NoPrev == [clean |-> FALSE, failed |-> {}]

\* load_nifty_500 (line 338) has filled the universe and its dict, and the
\* matcher has not been called
Loaded ==
    /\ nifty_companies = nifty_500_companies
    /\ company_map \in CompanyMaps(nifty_500_companies)
    /\ api_name = EmptyStr
    /\ matched = Null
    /\ forms = << >>

\* the state after construction (lines 290-358): an empty table, no cycle
Start ==
    /\ pc = "idle"
    /\ NIFTY_FILTER = TRUE
    /\ day = 1
    /\ ledger = {}
    /\ disk = {}
    /\ feed = << >>
    /\ data = None
    /\ companies = << >>
    /\ new_companies = << >>
    /\ processed_items = << >>
    /\ idx = 1
    /\ attempt = 1
    /\ outcome = "none"
    /\ docSent = FALSE
    /\ today_str = 0
    /\ log = << >>
    /\ straddle = FALSE
    /\ readErr = FALSE
    /\ ledgerAtStart = {}
    /\ sent1 = {}
    /\ sent2 = {}
    /\ dayBad = FALSE
    /\ prev = NoPrev
    /\ repeat = FALSE
    /\ missed = FALSE
    /\ instances = 0
    /\ Loaded

Init == Start /\ monitor = FALSE

\* the same start, with the history across cycles kept
InitHist == Start /\ monitor = TRUE

(***************************************************************************)
(* The cycle (run_job, lines 758-826).                                     *)
(***************************************************************************)
\* every novel event of the cycle had its image sent and its key written
AllDelivered ==
    \A i \in 1..Len(new_companies) : Logged("img_ok", i) /\ Logged("mark_ok", i)

\* the events whose image send failed in the cycle
FailedPairs ==
    { Pair(new_companies[i]) :
        i \in { j \in 1..Len(new_companies) : Logged("img_fail", j) } }

\* the summary of the cycle that ends, kept for the next cycle of the day
Summary ==
    IF straddle \/ ~monitor THEN NoPrev
    ELSE [clean |-> ~readErr /\ data # None /\ AllDelivered,
          failed |-> FailedPairs]

\* the locals of run_job are gone
Forget ==
    /\ data' = None
    /\ companies' = << >>
    /\ new_companies' = << >>
    /\ processed_items' = << >>
    /\ idx' = 1
    /\ attempt' = 1
    /\ outcome' = "none"
    /\ docSent' = FALSE
    /\ today_str' = 0
    /\ log' = << >>
    /\ straddle' = FALSE
    /\ readErr' = FALSE
    /\ repeat' = FALSE
    /\ missed' = FALSE
    /\ ledgerAtStart' = ledger

\* run_job is at its end
EndCycle == pc' = "done"

\* a job that may run two instances at a time
TwoInstances == 1 + 1

\* main, line 885: add_job is called without max_instances, so the scheduler
\* runs at most one instance of run_job at a time
max_instances == 1

\* main, line 885: on a tick the scheduler starts an instance of run_job when
\* fewer than max_instances are running (pc follows the first instance)
Tick ==
    /\ instances < max_instances
    /\ instances' = instances + 1
    /\ IF pc = "idle" THEN pc' = "fetch" ELSE UNCHANGED pc
    /\ UNCHANGED << env, lists, idx, attempt, outcome, docSent, log, hist, missed >>

\* main, line 885: a tick while max_instances instances are running is skipped
TickSkipped ==
    /\ instances >= max_instances
    /\ missed' = (missed \/ pc = "filter")
    /\ UNCHANGED << pc, env, lists, idx, attempt, outcome, docSent, log, hist,
                    instances >>

\* run_job returns
Return ==
    /\ pc = "done"
    /\ pc' = "idle"
    /\ prev' = Summary
    /\ instances' = 0
    /\ Forget
    /\ UNCHANGED << env, monitor, sent1, sent2, dayBad >>

\* fetch_results returns the payload of the feed (lines 434-443)
FetchOk ==
    /\ pc = "fetch"
    /\ data' = feed
    /\ repeat' = prev.clean
    /\ pc' = "extract"
    /\ attempt' = 1
    /\ outcome' = "none"
    /\ UNCHANGED << env, companies, new_companies, processed_items, today_str,
                    idx, docSent, log, monitor, sched, straddle, readErr, ledgerAtStart,
                    sent1, sent2, dayBad, prev >>

\* a fetch failure that stops the job for good
StopOnFetchFailure == pc' = "stopped"

\* a fetch failure after which the job fetches again
FetchAgainAfterFailure == UNCHANGED pc

\* lines 763-764 and 825-826: without a payload run_job returns
AfterFetchFailure == EndCycle

\* fetch_results returns None (JSONDecodeError) or an empty body: line 763
FetchNone ==
    /\ pc = "fetch"
    /\ AfterFetchFailure
    /\ attempt' = 1
    /\ outcome' = "none"
    /\ UNCHANGED << env, lists, idx, docSent, log, hist, sched >>

\* fetch_results raises RequestError or HTTPStatusError: retried up to
\* MAX_RETRIES attempts, then the error ends the job (lines 825-826)
FetchError ==
    /\ pc = "fetch"
    /\ IF attempt < MAX_RETRIES
       THEN attempt' = attempt + 1 /\ outcome' = "request" /\ UNCHANGED pc
       ELSE attempt' = 1 /\ outcome' = "none" /\ AfterFetchFailure
    /\ UNCHANGED << env, lists, idx, docSent, log, hist, sched >>

\* line 767: companies = self.extract_companies(data)
Extract ==
    /\ pc = "extract"
    /\ IF ExtractRaises(data, day, NIFTY_FILTER)
       THEN \* the error ends the job (lines 825-826)
            UNCHANGED companies /\ EndCycle
       ELSE /\ companies' = extract_companies(data, day, NIFTY_FILTER)
            /\ pc' = "filter"
    /\ UNCHANGED << env, data, new_companies, processed_items, today_str, idx,
                    attempt, outcome, docSent, log, hist, sched >>

\* lines 771-775, with the keys the lookup gave
FilterWith(sent_keys) ==
    /\ today_str' = day
    /\ new_companies' = get_new_companies(companies, sent_keys)
    /\ IF new_companies' = << >> THEN EndCycle ELSE pc' = "render"
    /\ missed' = FALSE
    /\ UNCHANGED << env, data, companies, processed_items, idx, attempt, outcome,
                    docSent, log, monitor, instances, straddle, ledgerAtStart, prev,
                    repeat >>

\* get_new_companies, the ledger lookup succeeding
Filter ==
    /\ pc = "filter"
    /\ FilterWith(get_sent_keys_for_date(ledger, day))
    /\ UNCHANGED << readErr, dayBad, sent1, sent2 >>

\* get_new_companies, the ledger lookup failing: get_sent_keys_for_date
\* returns set() (lines 255-257)
FilterReadError ==
    /\ pc = "filter"
    /\ FilterWith(KeysAfterReadError(ledger, day))
    /\ readErr' = monitor
    /\ dayBad' = monitor
    /\ sent1' = {}
    /\ sent2' = {}

\* a loop that sends as soon as an image is there
SendAfterRender(items) ==
    IF items # << >>
    THEN idx' = 1 /\ pc' = "image"
    ELSE IF idx < Len(new_companies)
    THEN idx' = idx + 1 /\ UNCHANGED pc
    ELSE idx' = 1 /\ EndCycle

\* lines 785-803: the rendering loop moves to the next event, or ends
AfterRender(items) ==
    IF idx < Len(new_companies)
    THEN idx' = idx + 1 /\ UNCHANGED pc
    ELSE /\ idx' = 1
         /\ IF items = << >> THEN EndCycle ELSE pc' = "image"

\* generate_news_image returns the image (lines 788-795)
RenderOk ==
    /\ pc = "render"
    /\ processed_items' = Append(processed_items, idx)
    /\ log' = Append(log, Entry("render_ok", idx))
    /\ AfterRender(processed_items')
    /\ UNCHANGED << env, data, companies, new_companies, today_str, attempt, outcome,
                    docSent, hist, sched >>

\* a render failure that ends the job
AbortOnRenderFailure == idx' = 1 /\ EndCycle

\* lines 797-799: the failure is logged and the loop continues
AfterRenderFailure == AfterRender(processed_items)

\* generate_news_image raises (lines 797-799)
RenderFail ==
    /\ pc = "render"
    /\ log' = Append(log, Entry("render_fail", idx))
    /\ AfterRenderFailure
    /\ UNCHANGED << env, lists, attempt, outcome, docSent, hist, sched >>

\* the sending loop moves to the next rendered event, or ends (line 808)
NextItem ==
    /\ attempt' = 1
    /\ outcome' = "none"
    /\ docSent' = FALSE
    /\ IF idx < Len(processed_items)
       THEN idx' = idx + 1 /\ pc' = "image"
       ELSE idx' = idx /\ EndCycle

\* the result of send_telegram_image taken as success whenever it returns
ImageDeliveredIfReturned(res) == res \in {"ok", "false"}

\* line 811: the value of send_telegram_image opens the document stage
ImageDelivered(res) == res = "ok"

\* the image of the next event sent before the document stage of this one
SendNextBeforeDocument(res) ==
    IF res = "ok" /\ idx < Len(processed_items)
    THEN /\ idx' = idx + 1
         /\ pc' = "image"
         /\ attempt' = 1
         /\ outcome' = "none"
         /\ UNCHANGED docSent
    ELSE IF res = "ok"
    THEN /\ pc' = "pdf"
         /\ attempt' = 1
         /\ outcome' = "none"
         /\ UNCHANGED << idx, docSent >>
    ELSE NextItem

\* line 811 with the result of send_telegram_image: "ok" (True) or "false"
\* (False, lines 613-615)
AfterImage(res) ==
    IF ImageDelivered(res)
    THEN /\ pc' = "pdf"
         /\ attempt' = 1
         /\ outcome' = "none"
         /\ UNCHANGED << idx, docSent >>
    ELSE NextItem

\* send_telegram_image succeeds (lines 600-609)
ImageOk ==
    /\ pc = "image"
    /\ log' = Append(log, Entry("img_ok", processed_items[idx]))
    /\ IF dayBad \/ ~monitor THEN UNCHANGED << sent1, sent2 >>
       ELSE IF Pair(Current) \in sent1
       THEN sent2' = sent2 \cup {Pair(Current)} /\ UNCHANGED sent1
       ELSE sent1' = sent1 \cup {Pair(Current)} /\ UNCHANGED sent2
    /\ AfterImage("ok")
    /\ UNCHANGED << env, lists, monitor, sched, straddle, readErr, ledgerAtStart, dayBad,
                    prev, repeat >>

\* the error of one event ending the job
AbortOnEventError ==
    /\ attempt' = 1
    /\ outcome' = "none"
    /\ UNCHANGED << idx, docSent >>
    /\ EndCycle

\* lines 821-823: the error of one event is logged and the loop continues
AfterEventError == NextItem

\* line 592: retry_if_exception_type(TelegramError)
RetryImage(exc) == exc \in TelegramErrors

\* send_telegram_image raises the TelegramError exc (lines 610-612): retried
\* up to IMAGE_ATTEMPTS attempts, then the error skips the event
ImageRaises(exc) ==
    /\ pc = "image"
    /\ IF RetryImage(exc) /\ attempt < IMAGE_ATTEMPTS
       THEN /\ attempt' = attempt + 1
            /\ outcome' = exc
            /\ UNCHANGED << pc, idx, docSent, log >>
       ELSE /\ log' = Append(log, Entry("img_fail", processed_items[idx]))
            /\ AfterEventError
    /\ UNCHANGED << env, lists, hist, sched >>

ImageTelegramError == \E exc \in ImageErrors : ImageRaises(exc)

\* send_telegram_image catches another exception and returns False
ImageOtherError ==
    /\ pc = "image"
    /\ log' = Append(log, Entry("img_fail", processed_items[idx]))
    /\ AfterImage("false")
    /\ UNCHANGED << env, lists, hist, sched >>

(***************************************************************************)
(* The document stage (_process_pdf_delivery, lines 828-876).              *)
(***************************************************************************)
\* pdf_path of the event the loop is at (lines 834-835)
PdfPath == generate_pdf_filename(Current.name, Current.description)

\* lines 830-831: no link, no document stage
ProcessPdf ==
    /\ pc = "pdf"
    /\ IF Current.resultLink = EmptyStr
       THEN /\ pc' = "mark"
            /\ log' = Append(log, Entry("doc_skip", processed_items[idx]))
       ELSE /\ pc' = "download"
            /\ UNCHANGED log
    /\ UNCHANGED << env, lists, idx, attempt, outcome, docSent, hist, sched >>

\* the except branch of line 858 is entered: the fallback follows
ToFallback ==
    /\ pc' = "fallback"
    /\ attempt' = 1
    /\ outcome' = "none"
    /\ log' = Append(log, Entry("doc_fail", processed_items[idx]))

\* download_pdf writes the file and returns True, from the link or, after a
\* 404, from the fallback URL (lines 688-695, 710-717)
DownloadOk ==
    /\ pc = "download"
    /\ disk' = disk \cup {PdfPath}
    /\ pc' = "senddoc"
    /\ attempt' = 1
    /\ outcome' = "none"
    /\ UNCHANGED << outside, day, ledger, feed, lists, idx, docSent, log, hist, sched >>

\* download_pdf raises RequestError or OSError, before the file is opened or
\* while it is written (partial): retried up to DOWNLOAD_ATTEMPTS attempts
DownloadRetryable ==
    /\ pc = "download"
    /\ \E partial \in BOOLEAN :
         disk' = IF partial THEN disk \cup {PdfPath} ELSE disk
    /\ IF attempt < DOWNLOAD_ATTEMPTS
       THEN attempt' = attempt + 1 /\ outcome' = "request" /\ UNCHANGED << pc, log >>
       ELSE ToFallback
    /\ UNCHANGED << outside, day, ledger, feed, lists, idx, docSent, hist, sched >>

\* download_pdf raises HTTPStatusError (line 721), which is not retried; after
\* a 404 the fallback URL may have written part of the file (lines 712-714)
DownloadStatusError ==
    /\ pc = "download"
    /\ \E partial \in BOOLEAN :
         disk' = IF partial THEN disk \cup {PdfPath} ELSE disk
    /\ ToFallback
    /\ UNCHANGED << outside, day, ledger, feed, lists, idx, docSent, hist, sched >>

\* send_telegram_document ends: the finally block of line 850 follows
ToCleanup(sent) ==
    /\ docSent' = sent
    /\ pc' = "cleanup"
    /\ attempt' = 1

\* send_telegram_document succeeds (lines 654-667)
DocumentOk ==
    /\ pc = "senddoc"
    /\ ToCleanup(TRUE)
    /\ outcome' = "none"
    /\ UNCHANGED << env, lists, idx, log, hist, sched >>

\* a retry predicate that takes every TelegramError
RetryDocumentAnyTelegramError(exc) == exc \in TelegramErrors

\* line 646: isinstance(x, TelegramError) and not isinstance(x, TimedOut)
RetryDocument(exc) == exc \in TelegramErrors /\ exc # "timed_out"

\* send_telegram_document raises the TelegramError exc (lines 668-670):
\* retried up to DOCUMENT_ATTEMPTS attempts when the predicate takes it; the
\* error then passes through the finally block of line 850
DocumentRaises(exc) ==
    /\ pc = "senddoc"
    /\ outcome' = exc
    /\ IF RetryDocument(exc) /\ attempt < DOCUMENT_ATTEMPTS
       THEN attempt' = attempt + 1 /\ UNCHANGED << pc, docSent >>
       ELSE ToCleanup(FALSE)
    /\ UNCHANGED << env, lists, idx, log, hist, sched >>

\* send_telegram_document raises TimedOut, which is not retried (line 646)
DocumentTimedOut == DocumentRaises("timed_out")

\* send_telegram_document raises another TelegramError
DocumentTelegramError ==
    \E exc \in TelegramErrors \ {"timed_out"} : DocumentRaises(exc)

\* send_telegram_document returns False (lines 671-673): line 845 raises
DocumentOtherError ==
    /\ pc = "senddoc"
    /\ ToCleanup(FALSE)
    /\ outcome' = "none"
    /\ UNCHANGED << env, lists, idx, log, hist, sched >>

\* a document stage that sends the text link after the document as well
FallbackAfterDocument ==
    /\ pc' = "fallback"
    /\ attempt' = 1
    /\ outcome' = "none"
    /\ log' = Append(log, Entry(IF docSent THEN "doc_ok" ELSE "doc_fail",
                                processed_items[idx]))

\* after the finally block: on to mark sent, or into the fallback
AfterCleanup ==
    IF docSent
    THEN /\ pc' = "mark"
         /\ log' = Append(log, Entry("doc_ok", processed_items[idx]))
         /\ UNCHANGED << attempt, outcome >>
    ELSE ToFallback

\* lines 850-854: the file is deleted
Cleanup ==
    /\ pc = "cleanup"
    /\ disk' = disk \ {PdfPath}
    /\ AfterCleanup
    /\ UNCHANGED << outside, day, ledger, feed, lists, idx, docSent, hist, sched >>

\* lines 855-856: unlink raises, which is logged
CleanupFail ==
    /\ pc = "cleanup"
    /\ PdfPath \in disk
    /\ AfterCleanup
    /\ UNCHANGED << env, lists, idx, docSent, hist, sched >>

\* the fallback ends (line 876): on to mark sent
AfterFallback(op) ==
    /\ pc' = "mark"
    /\ attempt' = 1
    /\ outcome' = "none"
    /\ log' = Append(log, Entry(op, processed_items[idx]))

\* the text message with the link is sent (lines 865-871)
FallbackOk ==
    /\ pc = "fallback"
    /\ AfterFallback("txt_ok")
    /\ UNCHANGED << env, lists, idx, docSent, hist, sched >>

\* send_telegram_message raises TelegramError: retried up to MESSAGE_ATTEMPTS
\* attempts, then the error is logged (lines 872-873)
FallbackTelegramError ==
    /\ pc = "fallback"
    /\ IF attempt < MESSAGE_ATTEMPTS
       THEN attempt' = attempt + 1 /\ outcome' = "telegram" /\ UNCHANGED << pc, log >>
       ELSE AfterFallback("txt_fail")
    /\ UNCHANGED << env, lists, idx, docSent, hist, sched >>

\* send_telegram_message catches another exception and returns False
FallbackOtherError ==
    /\ pc = "fallback"
    /\ AfterFallback("txt_fail")
    /\ UNCHANGED << env, lists, idx, docSent, hist, sched >>

(***************************************************************************)
(* Mark sent and pacing (lines 816-819).                                   *)
(***************************************************************************)
\* mark_companies_sent([company]) writes the ledger under today's date
MarkSent ==
    /\ pc = "mark"
    /\ ledger' = mark_sent(ledger, << Current >>, day)
    /\ log' = Append(log, Entry("mark_ok", processed_items[idx]))
    /\ pc' = "sleep"
    /\ UNCHANGED << outside, day, disk, feed, lists, idx, attempt, outcome, docSent, hist, sched >>

\* mark_sent raises inside its try: the error is logged (lines 283-284)
MarkSentError ==
    /\ pc = "mark"
    /\ log' = Append(log, Entry("mark_err", processed_items[idx]))
    /\ dayBad' = monitor
    /\ sent1' = {}
    /\ sent2' = {}
    /\ pc' = "sleep"
    /\ UNCHANGED << env, lists, idx, attempt, outcome, docSent, monitor, sched, straddle, readErr,
                    ledgerAtStart, prev, repeat >>

\* line 819: asyncio.sleep(2), then the next event
Sleep ==
    /\ pc = "sleep"
    /\ NextItem
    /\ UNCHANGED << env, lists, log, hist, sched >>

(***************************************************************************)
(* The environment.                                                        *)
(***************************************************************************)
\* midnight in the configured timezone: datetime.now(tz) gives the next date
Midnight ==
    /\ day < MaxDay
    /\ day' = day + 1
    /\ sent1' = {}
    /\ sent2' = {}
    /\ prev' = NoPrev
    /\ straddle' = (monitor /\ pc # "idle")
    /\ dayBad' = (monitor /\ pc # "idle")
    /\ UNCHANGED << pc, outside, ledger, disk, feed, lists, idx, attempt, outcome,
                    docSent, log, monitor, sched, readErr, ledgerAtStart, repeat >>

\* the feed lists other events: what it listed goes, and later it lists a
\* payload of the day; a cycle reads the feed once, at its start, so the change
\* is taken between two cycles
FeedChange ==
    /\ pc = "idle"
    /\ IF feed = << >>
       THEN \E payload \in Payloads(day) :
              /\ payload # << >>
              /\ feed' = payload
       ELSE feed' = << >>
    /\ prev' = [prev EXCEPT !.clean = FALSE]
    /\ UNCHANGED << pc, outside, day, ledger, disk, lists, idx, attempt, outcome,
                    docSent, log, monitor, sched, straddle, readErr, ledgerAtStart,
                    sent1, sent2, dayBad, repeat >>

\* the process is stopped while a cycle runs, and started again: the table
\* and the files stay
Restart ==
    /\ pc # "idle"
    /\ pc' = "idle"
    /\ prev' = NoPrev
    /\ dayBad' = monitor
    /\ sent1' = {}
    /\ sent2' = {}
    /\ instances' = 0
    /\ Forget
    /\ UNCHANGED << env, monitor >>

Next ==
    \/ Tick
    \/ TickSkipped
    \/ Return
    \/ FetchOk
    \/ FetchNone
    \/ FetchError
    \/ Extract
    \/ Filter
    \/ FilterReadError
    \/ RenderOk
    \/ RenderFail
    \/ ImageOk
    \/ ImageTelegramError
    \/ ImageOtherError
    \/ ProcessPdf
    \/ DownloadOk
    \/ DownloadRetryable
    \/ DownloadStatusError
    \/ DocumentOk
    \/ DocumentTimedOut
    \/ DocumentTelegramError
    \/ DocumentOtherError
    \/ Cleanup
    \/ CleanupFail
    \/ FallbackOk
    \/ FallbackTelegramError
    \/ FallbackOtherError
    \/ MarkSent
    \/ MarkSentError
    \/ Sleep
    \/ Midnight
    \/ FeedChange
    \/ Restart

Spec == Init /\ [][Next]_vars

\* the same program, with the history across cycles kept
SpecHist == InitHist /\ [][Next]_vars

(***************************************************************************)
(* The cycles of one day in which the fetch, the ledger lookup, every       *)
(* render, every image send and every ledger write succeed (the document   *)
(* stage may still fail): the process starts on a day after the first,     *)
(* with the rows an earlier day left in the table and a feed that stays.   *)
(***************************************************************************)
\* the rows the deliveries of the day before day d can have left
EarlierRows(d) ==
    { [composite_key |-> CompositeKey(Candidate(Event(t, d - 1))),
       company_name |-> t.companyName,
       description |-> t.resultDescription, date_str |-> d - 1] :
        t \in { x \in Templates :
                  Qualifies(Event(x, d - 1), d - 1, TRUE) } }

InitLive ==
    /\ pc = "idle"
    /\ NIFTY_FILTER = TRUE
    /\ day = MaxDay
    /\ ledger \in SUBSET EarlierRows(day)
    /\ disk = {}
    /\ feed \in { payload \in Payloads(day) :
                    \A o \in 1..Len(payload) : payload[o].companyName # Null }
    /\ data = None
    /\ companies = << >>
    /\ new_companies = << >>
    /\ processed_items = << >>
    /\ idx = 1
    /\ attempt = 1
    /\ outcome = "none"
    /\ docSent = FALSE
    /\ today_str = 0
    /\ log = << >>
    /\ straddle = FALSE
    /\ readErr = FALSE
    /\ ledgerAtStart = {}
    /\ sent1 = {}
    /\ sent2 = {}
    /\ dayBad = FALSE
    /\ prev = NoPrev
    /\ repeat = FALSE
    /\ missed = FALSE
    /\ instances = 0
    /\ monitor = FALSE
    /\ Loaded

\* a step of run_job in such a cycle
StepLive ==
    \/ Return
    \/ FetchOk
    \/ Extract
    \/ Filter
    \/ RenderOk
    \/ ImageOk
    \/ ProcessPdf
    \/ DownloadOk
    \/ DownloadRetryable
    \/ DownloadStatusError
    \/ DocumentOk
    \/ DocumentTimedOut
    \/ DocumentTelegramError
    \/ DocumentOtherError
    \/ Cleanup
    \/ CleanupFail
    \/ FallbackOk
    \/ FallbackTelegramError
    \/ FallbackOtherError
    \/ MarkSent
    \/ Sleep

NextLive == Tick \/ TickSkipped \/ StepLive

\* main, lines 885-892: the scheduler fires the cron trigger of run_job for
\* as long as the process runs, and a started run_job runs on to its end
FairCycles == WF_vars(Tick) /\ WF_vars(StepLive)

SpecLive == InitLive /\ [][NextLive]_vars /\ FairCycles

(***************************************************************************)
(* The cycles of one day over a feed that stays, every external call       *)
(* returning or raising: the process starts with an empty table.           *)
(***************************************************************************)
InitCycle ==
    /\ pc = "idle"
    /\ NIFTY_FILTER = TRUE
    /\ day = 1
    /\ ledger = {}
    /\ disk = {}
    /\ feed \in Payloads(day)
    /\ data = None
    /\ companies = << >>
    /\ new_companies = << >>
    /\ processed_items = << >>
    /\ idx = 1
    /\ attempt = 1
    /\ outcome = "none"
    /\ docSent = FALSE
    /\ today_str = 0
    /\ log = << >>
    /\ straddle = FALSE
    /\ readErr = FALSE
    /\ ledgerAtStart = {}
    /\ sent1 = {}
    /\ sent2 = {}
    /\ dayBad = FALSE
    /\ prev = NoPrev
    /\ repeat = FALSE
    /\ missed = FALSE
    /\ instances = 0
    /\ monitor = FALSE
    /\ Loaded

\* a step of run_job, whatever the outcome of its external call
StepCycle ==
    \/ Return
    \/ FetchOk
    \/ FetchNone
    \/ FetchError
    \/ Extract
    \/ Filter
    \/ FilterReadError
    \/ RenderOk
    \/ RenderFail
    \/ ImageOk
    \/ ImageTelegramError
    \/ ImageOtherError
    \/ ProcessPdf
    \/ DownloadOk
    \/ DownloadRetryable
    \/ DownloadStatusError
    \/ DocumentOk
    \/ DocumentTimedOut
    \/ DocumentTelegramError
    \/ DocumentOtherError
    \/ Cleanup
    \/ CleanupFail
    \/ FallbackOk
    \/ FallbackTelegramError
    \/ FallbackOtherError
    \/ MarkSent
    \/ MarkSentError
    \/ Sleep

NextCycle == Tick \/ TickSkipped \/ StepCycle

\* every external call returns or raises in finite time (the timeouts of
\* lines 436-441, 603-608, 657-664, 684), so a started run_job takes its
\* next step
CallsReturn == WF_vars(StepCycle)

SpecCycle == InitCycle /\ [][NextCycle]_vars /\ CallsReturn

(***************************************************************************)
(* extract_companies on its own: run_job has fetched a payload (line 761)  *)
(* and calls extract_companies on it (line 767).                           *)
(***************************************************************************)
InitExtract ==
    /\ pc = "extract"
    /\ NIFTY_FILTER = TRUE
    /\ day = 1
    /\ ledger = {}
    /\ disk = {}
    /\ feed \in Batches(day)
    /\ data = feed
    /\ companies = << >>
    /\ new_companies = << >>
    /\ processed_items = << >>
    /\ idx = 1
    /\ attempt = 1
    /\ outcome = "none"
    /\ docSent = FALSE
    /\ today_str = 0
    /\ log = << >>
    /\ monitor = FALSE
    /\ straddle = FALSE
    /\ readErr = FALSE
    /\ ledgerAtStart = {}
    /\ sent1 = {}
    /\ sent2 = {}
    /\ dayBad = FALSE
    /\ prev = NoPrev
    /\ repeat = FALSE
    /\ missed = FALSE
    /\ instances = 1
    /\ Loaded

NextExtract == Extract

SpecExtract == InitExtract /\ [][NextExtract]_vars

(***************************************************************************)
(* normalize_company_name and fuzzy_match_company on their own.            *)
(***************************************************************************)
TatasCap == <<"T", "a", "t", "a", "s">>

RECURSIVE Joined(_, _)
\* the names made of at most n of the pieces
Joined(pieces, n) ==
    IF n = 0 THEN { << >> }
    ELSE LET shorter == Joined(pieces, n - 1)
         IN  shorter \cup { s \o piece : s \in shorter, piece \in pieces }

\* the words of the names with five words
B == <<"b">>
C == <<"c">>
D == <<"d">>
E == <<"e">>
F == <<"f">>
G == <<"g">>
H == <<"h">>

RECURSIVE Words(_)
\* the words, one blank between them
Words(ws) ==
    IF Len(ws) = 1 THEN ws[1] ELSE ws[1] \o Space \o Words(Tail(ws))

\* the names handed to the matcher: every name of up to MaxPieces pieces (a
\* capitalised word, the abbreviations after a blank, a dot, a blank), a name
\* of five words, a name of stop words only, a name of four characters and
\* a name of two words
ApiNames ==
    Joined({ TatasCap, Space \o Co, Space \o Ltd, Dot, Space }, MaxPieces)
      \cup { Words(<< B, C, D, E, F >>), Words(<< <<"o", "f">>, <<"a">> >>),
             Tata, Words(<< TatasCap, B >>) }

\* the companies of the universes: two with one normalized form, one that
\* holds that form and the name of two words, and three that share five,
\* four and three words with the name of five words
Companies ==
    { Tatas, Words(<< Tatas, Ltd >>), Words(<< Tatas, B, C >>),
      Words(<< F, E, D, C, B >>), Words(<< B, C, D, E, G >>),
      Words(<< B, C, D, G, H >>) }

\* the universes handed to the matcher
Universes == { U \in SUBSET Companies : Cardinality(U) <= MaxUniverse }

InitMatch ==
    /\ pc = "call"
    /\ NIFTY_FILTER = TRUE
    /\ day = 1
    /\ ledger = {}
    /\ disk = {}
    /\ feed = << >>
    /\ data = None
    /\ companies = << >>
    /\ new_companies = << >>
    /\ processed_items = << >>
    /\ idx = 1
    /\ attempt = 1
    /\ outcome = "none"
    /\ docSent = FALSE
    /\ today_str = 0
    /\ log = << >>
    /\ monitor = FALSE
    /\ straddle = FALSE
    /\ readErr = FALSE
    /\ ledgerAtStart = {}
    /\ sent1 = {}
    /\ sent2 = {}
    /\ dayBad = FALSE
    /\ prev = NoPrev
    /\ repeat = FALSE
    /\ missed = FALSE
    /\ instances = 0
    /\ nifty_companies \in Universes
    /\ company_map \in CompanyMaps(nifty_companies)
    /\ api_name \in ApiNames
    /\ matched = Null
    /\ forms = << >>

\* normalize_company_name is called on the name, then on its result
Normalize ==
    /\ Len(forms) < 2
    /\ forms' = Append(forms, normalize_company_name(IF forms = << >> THEN api_name
                                                     ELSE forms[Len(forms)]))
    /\ UNCHANGED << pc, NIFTY_FILTER, day, ledger, disk, feed, lists, idx, attempt,
                    outcome, docSent, log, hist, sched, api_name, nifty_companies,
                    company_map, matched >>

\* fuzzy_match_company(api_name, nifty_companies, company_map) returns
Match ==
    /\ pc = "call"
    /\ matched' \in fuzzy_match_company(api_name, nifty_companies, company_map)
    /\ pc' = "returned"
    /\ UNCHANGED << NIFTY_FILTER, day, ledger, disk, feed, lists, idx, attempt,
                    outcome, docSent, log, hist, sched, api_name, nifty_companies,
                    company_map, forms >>

NextMatch == Normalize \/ Match

SpecMatch == InitMatch /\ [][NextMatch]_vars

(***************************************************************************)
(* Properties.                                                             *)
(***************************************************************************)
\* the positions of run_job after get_new_companies has returned
AfterFilter == pc \notin {"idle", "fetch", "extract", "filter"}

\* the keys the ledger holds for today
TodayKeys == get_sent_keys_for_date(ledger, day)

\* c is one of the entries of the list
InList(c, list) == \E k \in 1..Len(list) : list[k] = c

\* the rows the current cycle wrote
WrittenRows == ledger \ ledgerAtStart

\* the log holds an entry for event i that is one of ops
LoggedAny(ops, i) == \E op \in ops : Logged(op, i)

SendOps == {"img_ok", "img_fail"}
DocOps == {"doc_skip", "doc_ok", "doc_fail", "txt_ok", "txt_fail"}
DocEndOps == {"doc_skip", "doc_ok", "txt_ok", "txt_fail"}
MarkOps == {"mark_ok", "mark_err"}

\* C1: on a day whose cycles ran whole and without ledger errors, no event
\* has its image sent twice.
C1_AtMostOncePerDay == ~dayBad => sent2 = {}

\* C2: every row the cycle wrote belongs to an event whose image send
\* succeeded earlier in the cycle, and no event whose image send failed has
\* a ledger write.
C2_LedgerOnlyAfterImageSent ==
    /\ \A r \in WrittenRows :
         \E i \in 1..Len(new_companies) :
           /\ Logged("img_ok", i)
           /\ r.composite_key = CompositeKey(new_companies[i])
           /\ r.company_name = new_companies[i].name
           /\ r.description = new_companies[i].description
    /\ \A k \in 1..Len(log) :
         log[k].op \in MarkOps =>
           \E j \in 1..(k - 1) : log[j].op = "img_ok" /\ log[j].i = log[k].i
    /\ \A i \in 1..Len(new_companies) :
         Logged("img_fail", i) => ~LoggedAny(MarkOps, i)

\* C2 witness: a cycle wrote a row for one event while the image send of
\* another event had failed.
C2_Witness ==
    /\ WrittenRows # {}
    /\ \E i \in 1..Len(new_companies) : Logged("img_fail", i)

\* C3: an event whose image send failed is not in today's ledger at the end
\* of the cycle, and the next cycle of the day that extracts it finds it novel.
C3_FailedSendRetried ==
    /\ (pc = "done" /\ ~straddle) =>
         \A i \in 1..Len(new_companies) :
           Logged("img_fail", i) => CompositeKey(new_companies[i]) \notin TodayKeys
    /\ (AfterFilter /\ ~straddle) =>
         \A k \in 1..Len(companies) :
           Pair(companies[k]) \in prev.failed => InList(companies[k], new_companies)

\* C4: after the ledger write of an event returned without error, today's
\* lookup holds the event's key.
C4_RecordedPerKeyAndDay ==
    ~straddle =>
      \A i \in 1..Len(new_companies) :
        Logged("mark_ok", i) => CompositeKey(new_companies[i]) \in TodayKeys

\* C5: a cycle that fetches the payload a clean previous cycle of the day
\* fetched finds no novel event and sends nothing.
C5_DedupIdempotence ==
    (repeat /\ AfterFilter /\ ~straddle /\ ~readErr) =>
      new_companies = << >> /\ log = << >>

\* C6: a candidate whose key the ledger holds under no row of today is novel,
\* whatever rows of other days hold the key.
C6_DayRolloverReset ==
    AfterFilter =>
      \A k \in 1..Len(companies) :
        (\A r \in ledgerAtStart :
           r.composite_key = CompositeKey(companies[k]) => r.date_str # today_str)
        => InList(companies[k], new_companies)

\* C6 witness: the ledger holds a candidate's key under the day before, and
\* the candidate is novel.
C6_Witness ==
    /\ AfterFilter
    /\ \E k \in 1..Len(companies) :
         /\ \E r \in ledgerAtStart :
              /\ r.composite_key = CompositeKey(companies[k])
              /\ r.date_str = today_str - 1
         /\ InList(companies[k], new_companies)

\* two entries with the same name and different descriptions
SameNameOtherDescription(a, b) == a.name = b.name /\ a.description # b.description

\* C7: of two events with the same company name and different descriptions
\* (and the same date and alternate name) extraction keeps both or none; the
\* two get different keys; the ledger holding one key leaves the other novel;
\* and each of them that was rendered has its image send.
C7_CompositeKeyDistinct ==
    /\ (data # None /\ pc \notin {"idle", "fetch", "extract"}) =>
         \A a, b \in 1..Len(data) :
           ( /\ data[a].companyName = data[b].companyName
             /\ data[a].resultDescription # data[b].resultDescription
             /\ data[a].assentName = data[b].assentName
             /\ data[a].dateTime.date = data[b].dateTime.date
             /\ \E k \in 1..Len(companies) : Pair(companies[k]) = Pair(Candidate(data[a])) )
           => \E k \in 1..Len(companies) : Pair(companies[k]) = Pair(Candidate(data[b]))
    /\ \A a, b \in 1..Len(companies) :
         SameNameOtherDescription(companies[a], companies[b]) =>
           /\ CompositeKey(companies[a]) # CompositeKey(companies[b])
           /\ ( /\ AfterFilter
                /\ CompositeKey(companies[b]) \notin
                     get_sent_keys_for_date(ledgerAtStart, today_str) )
              => InList(companies[b], new_companies)
    /\ pc = "done" =>
         \A i, j \in 1..Len(new_companies) :
           ( /\ SameNameOtherDescription(new_companies[i], new_companies[j])
             /\ Logged("render_ok", j) )
           => LoggedAny(SendOps, j)

\* C7 witness: a cycle delivered and recorded two events with the same name
\* and different descriptions.
C7_Witness ==
    /\ pc = "done"
    /\ \E i, j \in 1..Len(new_companies) :
         /\ SameNameOtherDescription(new_companies[i], new_companies[j])
         /\ Logged("img_ok", i) /\ Logged("mark_ok", i)
         /\ Logged("img_ok", j) /\ Logged("mark_ok", j)
         /\ {CompositeKey(new_companies[i]), CompositeKey(new_companies[j])}
              \subseteq TodayKeys

\* C8: at the end of a cycle without ledger errors, an event whose document
\* stage failed (and whose text send raised no error) has had the text message
\* with the link sent and is in today's ledger.
C8_FallbackStillRecorded ==
    (pc = "done" /\ ~straddle /\ ~readErr) =>
      \A i \in 1..Len(new_companies) :
        (Logged("doc_fail", i) /\ ~Logged("txt_fail", i) /\ ~Logged("mark_err", i))
        => /\ Logged("txt_ok", i)
           /\ Logged("mark_ok", i)
           /\ CompositeKey(new_companies[i]) \in TodayKeys

\* C9: when the document stage of an event with a link has ended, the
\* temporary file of the event is not on disk.
C9_TempFilesRemoved ==
    (pc = "mark" /\ Current.resultLink # EmptyStr) => PdfPath \notin disk

\* C10: at the end of a cycle, an event whose render failed has no send, no
\* document stage and no ledger write, and every rendered event has had its
\* image send and, the image sent, its document stage and its ledger write.
C10_NonCascadingRender ==
    pc = "done" =>
      \A i \in 1..Len(new_companies) :
        /\ Logged("render_fail", i) =>
             /\ ~LoggedAny(SendOps \cup DocOps \cup MarkOps, i)
             /\ \A r \in WrittenRows : << r.company_name, r.description >> # Pair(new_companies[i])
        /\ Logged("render_ok", i) =>
             /\ LoggedAny(SendOps, i)
             /\ Logged("img_ok", i) => LoggedAny(DocEndOps, i) /\ LoggedAny(MarkOps, i)

\* C10 witness: a cycle ended in which the render of one event failed and
\* another event was sent and recorded.
C10_Witness ==
    /\ pc = "done"
    /\ \E i, j \in 1..Len(new_companies) :
         /\ Logged("render_fail", i)
         /\ Logged("img_ok", j)
         /\ Logged("mark_ok", j)
         /\ CompositeKey(new_companies[j]) \in TodayKeys

\* the positions of run_job inside the sending loop
DeliveryPcs == {"image", "pdf", "download", "senddoc", "cleanup", "fallback",
                "mark", "sleep"}

RenderOps == {"render_ok", "render_fail"}
FailOps == {"img_fail", "doc_fail", "txt_fail", "mark_err"}
DeliveryOps == SendOps \cup DocOps \cup MarkOps

\* the event at position a of processed_items
Item(a) == processed_items[a]

\* C11: at the end of a cycle, whenever the image send, the document stage,
\* the text send or the ledger write of a rendered event failed, every event
\* rendered after it has had its image send attempted, after that failure;
\* and an event whose ledger write failed keeps its sent image.
C11_FailureIsolation ==
    pc = "done" =>
      /\ \A a, b \in 1..Len(processed_items) :
           a < b =>
             \A k \in 1..Len(log) :
               (log[k].i = Item(a) /\ log[k].op \in FailOps) =>
                 \E m \in (k + 1)..Len(log) :
                   log[m].i = Item(b) /\ log[m].op \in SendOps
      /\ \A i \in 1..Len(new_companies) :
           Logged("mark_err", i) => Logged("img_ok", i)

\* C11 witness: a cycle ended in which the document stage, the text send and
\* the ledger write of one event failed and the image of a later one was sent.
C11_Witness ==
    /\ pc = "done"
    /\ \E a, b \in 1..Len(processed_items) :
         /\ a < b
         /\ Logged("doc_fail", Item(a))
         /\ Logged("txt_fail", Item(a))
         /\ Logged("mark_err", Item(a))
         /\ Logged("img_ok", Item(b))

\* C12: while the cycle has no payload it is at the fetch or at its end, with
\* nothing rendered, nothing sent and the ledger as the cycle found it; and a
\* cycle at its end can return, after which the scheduler can start the next.
C12_FetchFailureAborts ==
    /\ (data = None /\ pc # "idle") =>
         /\ pc \in {"fetch", "done"}
         /\ log = << >>
         /\ companies = << >> /\ new_companies = << >> /\ processed_items = << >>
         /\ ledger = ledgerAtStart
    /\ pc = "done" => ENABLED Return
    /\ pc = "idle" => ENABLED Tick

\* C12 witness: a cycle ended without a payload although the feed lists
\* events, in a process whose earlier cycle recorded a delivery.
C12_Witness ==
    /\ pc = "done"
    /\ data = None
    /\ feed # << >>
    /\ ledger # {}

\* an item of the payload with a name that is a string
WellFormed(event) == event.companyName # Null

\* C13: once extract_companies has run on a payload, every well-formed item of
\* the payload that qualifies is among the candidates (an error raised by
\* the extraction shows as no candidate at the end of the cycle).
C13_MalformedItemSkipped ==
    (data # None /\ pc \notin {"idle", "fetch", "extract"}) =>
      \A k \in 1..Len(data) :
        (WellFormed(data[k]) /\ Qualifies(data[k], day, NIFTY_FILTER)) =>
          \E c \in 1..Len(companies) : Pair(companies[c]) = Pair(Candidate(data[k]))

\* C14: an image send that raised a channel error that is not transient is not
\* attempted again, and an event whose image send failed has no document
\* stage and no ledger write.
C14_TerminalImageErrorNotRetried ==
    /\ pc = "image" => outcome \notin (TelegramErrors \ TransientErrors)
    /\ \A i \in 1..Len(new_companies) :
         Logged("img_fail", i) => ~LoggedAny(DocOps \cup MarkOps, i)

\* C15: the document send is never at a further attempt after a timed-out
\* one, makes at most DOCUMENT_ATTEMPTS attempts and makes a further attempt
\* only after another channel error; and the step that follows the clean-up
\* of a timed-out send enters the fallback.
C15_NoReuploadAfterTimeout ==
    /\ [](pc = "senddoc" =>
            /\ attempt <= DOCUMENT_ATTEMPTS
            /\ outcome # "timed_out"
            /\ attempt > 1 => outcome \in (TelegramErrors \ {"timed_out"}))
    /\ []((outcome = "timed_out" /\ pc # "image") => (pc = "cleanup" /\ ~docSent))
    /\ [][(pc = "cleanup" /\ outcome = "timed_out" /\ pc' \notin {"cleanup", "idle"})
            => (pc' = "fallback" /\ Logged("doc_fail", Item(idx))')]_vars

\* C15 witness: the document send timed out and the file is being removed
\* on the way to the fallback.
C15_Witness ==
    /\ pc = "cleanup"
    /\ outcome = "timed_out"
    /\ ~docSent
    /\ PdfPath \in disk

\* C16: at the end of a cycle without ledger errors, an event without a link
\* whose image was sent has had no document send and no text message, and is
\* in today's ledger.
C16_NoUrlSkipsDocument ==
    (pc = "done" /\ ~straddle) =>
      \A i \in 1..Len(new_companies) :
        ( /\ new_companies[i].resultLink = EmptyStr
          /\ Logged("img_ok", i)
          /\ ~Logged("mark_err", i) )
        => /\ Logged("doc_skip", i)
           /\ ~LoggedAny({"doc_ok", "doc_fail", "txt_ok", "txt_fail"}, i)
           /\ Logged("mark_ok", i)
           /\ CompositeKey(new_companies[i]) \in TodayKeys

\* the instant an ISO timestamp denotes, in hours: the date and the hour it
\* writes, less its UTC offset
Instant(date_time) == (date_time.date * 24 + date_time.time) - date_time.offset

\* C17: of two events whose image was sent in the cycle, the one sent first
\* does not have the later instant.
C17_AscendingTimestampOrder ==
    \A k1, k2 \in 1..Len(log) :
      (k1 < k2 /\ log[k1].op = "img_ok" /\ log[k2].op = "img_ok") =>
        Instant(new_companies[log[k1].i].dateTime)
          <= Instant(new_companies[log[k2].i].dateTime)

\* the delivery of event i has ended before position k of the log
DeliveryEndedBefore(i, k) ==
    \E m \in 1..(k - 1) :
      log[m].i = i /\ log[m].op \in {"img_fail", "mark_ok", "mark_err"}

C19_NoInterleaving ==
    /\ \A k1, k2 \in 1..Len(log) :
         (k1 < k2 /\ log[k1].op \in DeliveryOps /\ log[k2].op \in DeliveryOps)
         => log[k1].i <= log[k2].i
    /\ \A k1, k2 \in 1..Len(log) :
         ( /\ k1 < k2
           /\ log[k1].op = "img_ok"
           /\ log[k2].op \in DeliveryOps /\ log[k2].i # log[k1].i )
         => \E m \in (k1 + 1)..(k2 - 1) :
              log[m].i = log[k1].i /\ log[m].op \in MarkOps

\* C19 witness: a cycle ended that delivered two events, the first with a
\* document stage that fell back to the text message.
C19_Witness ==
    /\ pc = "done"
    /\ \E a, b \in 1..Len(processed_items) :
         /\ a < b
         /\ Logged("img_ok", Item(a)) /\ Logged("txt_ok", Item(a))
         /\ Logged("mark_ok", Item(a))
         /\ Logged("img_ok", Item(b)) /\ Logged("mark_ok", Item(b))

\* C20: the scheduler never has two instances of run_job running, an instance
\* is running exactly while a cycle is in progress, and a tick that was
\* skipped during the ledger lookup left the one running cycle in place.
C20_CyclesDoNotOverlap ==
    /\ instances <= 1
    /\ instances = 1 <=> pc # "idle"
    /\ missed => (instances = 1 /\ pc = "filter")

\* C20 witness: a tick was skipped while the cycle was reading the ledger for
\* its candidates, and the cycle is still the only one.
C20_Witness ==
    /\ missed
    /\ pc = "filter"
    /\ instances = 1
    /\ companies # << >>

\* C21: recording an event whose key the ledger holds for today leaves the
\* ledger as it is, recording the novel events of the cycle twice gives the
\* ledger that recording them once gives, and the ledger write of the cycle
\* on a key that is there for today changes nothing.
C21_RecordingIdempotent ==
    /\ [](\A i \in 1..Len(new_companies) :
            CompositeKey(new_companies[i]) \in get_sent_keys_for_date(ledger, day)
              => mark_sent(ledger, << new_companies[i] >>, day) = ledger)
    /\ [](mark_sent(mark_sent(ledger, new_companies, day), new_companies, day)
            = mark_sent(ledger, new_companies, day))
    /\ [][(pc = "mark" /\ pc' = "sleep" /\ Logged("mark_ok", Item(idx))'
            /\ CompositeKey(Current) \in get_sent_keys_for_date(ledger, day))
          => ledger' = ledger]_vars

\* C21 witness: the ledger write of an event was made on a key that an
\* earlier write of the cycle had recorded for today, under another name.
C21_Witness ==
    /\ pc = "sleep"
    /\ \E i, j \in 1..Len(new_companies) :
         /\ i # j
         /\ CompositeKey(new_companies[i]) = CompositeKey(new_companies[j])
         /\ Logged("mark_ok", i) /\ Logged("mark_ok", j)
         /\ log[Len(log)] = Entry("mark_ok", j)

\* a name shares its first PREFIX_LEN characters, whatever their case, with
\* the universe entry u
SharesPrefix(name, u) ==
    /\ Len(name) >= PREFIX_LEN
    /\ Len(u) >= PREFIX_LEN
    /\ \A k \in 1..PREFIX_LEN : LowerChar(name[k]) = LowerChar(u[k])

\* the identity of a feed item resolves: its company name or, failing that,
\* its alternate name has a universe entry
Resolves(event) ==
    \E u \in nifty_500_companies :
      \/ SharesPrefix(event.companyName, u)
      \/ SharesPrefix(event.assentName, u)

\* the feed items of the payload a candidate was made from
Origins(c) ==
    { k \in 1..Len(data) :
        data[k].companyName = c.name /\ data[k].resultDescription = c.description }

Count(ops, i) ==
    Cardinality({ k \in 1..Len(log) : log[k].i = i /\ log[k].op \in ops })

\* the ledger write of event i was made, or is about to be
AtLedgerWrite(i) ==
    \/ Logged("mark_ok", i)
    \/ pc = "mark" /\ Item(idx) = i

\* C29 as stated: an event recorded in the cycle has exactly one of document
\* sent, document skipped and fallback text sent.
C29_ExactlyOneDocumentSuccess ==
    \A i \in 1..Len(new_companies) :
      Logged("mark_ok", i) => Count({"doc_ok", "doc_skip", "txt_ok"}, i) = 1

\* C29 amended: the document stage of an event that is recorded ended once,
\* as document sent, document skipped, fallback text sent or fallback text
\* failed; it was skipped exactly when the event has no link, and a sent
\* document is never followed by a fallback text.
C29_OneDocumentStageOutcome ==
    \A i \in 1..Len(new_companies) :
      AtLedgerWrite(i) =>
        /\ Logged("img_ok", i)
        /\ Count(DocEndOps, i) = 1
        /\ Logged("doc_skip", i) <=> new_companies[i].resultLink = EmptyStr
        /\ Logged("doc_ok", i) => ~LoggedAny({"doc_fail", "txt_ok", "txt_fail"}, i)
        /\ LoggedAny({"txt_ok", "txt_fail"}, i) => Count({"doc_fail"}, i) = 1

\* C29 witness: an event was recorded after its document and its fallback
\* text both failed.
C29_Witness ==
    \E i \in 1..Len(new_companies) :
      /\ Logged("mark_ok", i)
      /\ Logged("doc_fail", i)
      /\ Logged("txt_fail", i)

\* extract_companies has returned its list
Extracted == pc = "filter"

\* C24: every entry extract_companies returns has a timestamp that parses with
\* today's date; the call raises for no payload of these events (none has a
\* null name), so the event of the day before and the one whose timestamp
\* does not parse are left out without an error, and nothing of the payload
\* is kept anywhere else.
C24_SameDayFilter ==
    /\ pc # "extract" => Extracted
    /\ Extracted =>
         /\ \A k \in 1..Len(companies) :
              /\ companies[k].dateTime.iso
              /\ companies[k].dateTime.date = day
              /\ \E o \in 1..Len(data) : companies[k] = Candidate(data[o])
         /\ new_companies = << >> /\ processed_items = << >> /\ ledger = {}

\* C24 witness: from a payload with an event of the day before, an event whose
\* timestamp does not parse and an event of today, the last one was kept.
C24_Witness ==
    /\ Extracted
    /\ \E o \in 1..Len(data) : data[o].dateTime.iso /\ data[o].dateTime.date < day
    /\ \E o \in 1..Len(data) : ~data[o].dateTime.iso
    /\ Len(companies) = 1

\* the items of the payload kept but for the duplicate check: of today, with a
\* name, with a universe entry
Keepable(o) ==
    /\ data[o].dateTime.iso /\ data[o].dateTime.date = day
    /\ data[o].companyName # EmptyStr
    /\ Resolves(data[o])

\* C25: no two entries of the list have the same name and description, and
\* the entry for a name and description is the first item of the payload,
\* among those kept but for the duplicate check, that has them: with its link
\* and its timestamp.
C25_FirstOccurrenceWins ==
    Extracted =>
      /\ \A j, k \in 1..Len(companies) :
           Pair(companies[j]) = Pair(companies[k]) => j = k
      /\ \A o \in 1..Len(data) :
           Keepable(o) =>
             \E k \in 1..Len(companies) :
               /\ Pair(companies[k]) = Pair(Candidate(data[o]))
               /\ \E f \in 1..o :
                    /\ Keepable(f)
                    /\ Pair(Candidate(data[f])) = Pair(Candidate(data[o]))
                    /\ \A e \in 1..(f - 1) :
                         ~(Keepable(e) /\ Pair(Candidate(data[e])) = Pair(Candidate(data[o])))
                    /\ companies[k] = Candidate(data[f])

\* C25 witness: the payload lists two events of today with the same name and
\* description, the one with the later hour first, and the list holds that
\* one only.
C25_Witness ==
    /\ Extracted
    /\ \E e, f \in 1..Len(data) :
         /\ e < f
         /\ Keepable(e) /\ Keepable(f)
         /\ Pair(Candidate(data[e])) = Pair(Candidate(data[f]))
         /\ data[e].dateTime.time > data[f].dateTime.time
         /\ \E k \in 1..Len(companies) : companies[k] = Candidate(data[e])

\* the entry extract_companies made of item o of the payload is in its list
Kept(o) == \E k \in 1..Len(companies) : companies[k] = Candidate(data[o])

\* the Matcher resolves a name to a universe entry
MatcherFinds(name) ==
    \E r \in fuzzy_match_company(name, nifty_companies, company_map) : r # Null

\* the Matcher resolves the company name of an item or, failing that, its
\* alternate name
MatcherResolves(event) ==
    MatcherFinds(event.companyName) \/ MatcherFinds(event.assentName)

Returned == pc = "returned"

\* C26: the result comes from the first strategy, in the order exact,
\* normalized-exact, substring, token overlap, that has one; so for a name
\* whose normalized form is that of a company the result is a company equal
\* to the name but for case, or the company the dict holds for the form.
C26_MatcherPrecedence ==
    (Returned /\ api_name # EmptyStr) =>
      LET form == normalize_company_name(api_name)
          exact == { c \in nifty_companies : Lower(c) = Lower(api_name) }
          inside == SubstringMatches(form, company_map)
      IN  /\ form \in NormalizedNames(nifty_companies)
               => matched \in exact \cup { company_map[form] }
          /\ exact # {} => matched \in exact
          /\ (exact = {} /\ form \in DOMAIN company_map) => matched = company_map[form]
          /\ (exact = {} /\ form \notin DOMAIN company_map /\ inside # {})
               => matched \in inside
          /\ (exact = {} /\ form \notin DOMAIN company_map /\ inside = {})
               => matched \in TokenMatches(form, nifty_companies)

\* C26 witness: the normalized form of the name is that of a company, no
\* company equals the name but for case, the substring strategy would give
\* another company, and the result is the company of the dict.
C26_Witness ==
    /\ Returned
    /\ api_name # EmptyStr
    /\ ExactMatches(api_name, nifty_companies) = {}
    /\ normalize_company_name(api_name) \in DOMAIN company_map
    /\ matched = company_map[normalize_company_name(api_name)]
    /\ \E other \in SubstringMatches(normalize_company_name(api_name), company_map) :
         other # matched

\* the token strategy decides the call
TokenStrategyReached ==
    /\ api_name # EmptyStr
    /\ ExactMatches(api_name, nifty_companies) = {}
    /\ normalize_company_name(api_name) \notin DOMAIN company_map
    /\ SubstringMatches(normalize_company_name(api_name), company_map) = {}

\* the tokens of the name
ApiTokens == Split(normalize_company_name(api_name)) \ stop_words

\* the tokens of the name that a company has
Shared(company) ==
    Cardinality(ApiTokens \cap (Split(normalize_company_name(company)) \ stop_words))

\* a company has at least 4 in 5 of the tokens of the name
FourFifths(company) ==
    ApiTokens # {} /\ 5 * Shared(company) >= 4 * Cardinality(ApiTokens)

C28_NormalizeIdempotent ==
    Len(forms) = 2 => forms[2] = forms[1]

\* the key of item o of the feed
KeyOf(o) == CompositeKey(Candidate(feed[o]))

\* the image of item o of the feed has been sent in the running cycle
ImageSentOf(o) ==
    /\ o <= Len(feed)
    /\ \E i \in 1..Len(new_companies) :
         /\ Logged("img_ok", i)
         /\ Pair(new_companies[i]) = Pair(Candidate(feed[o]))

\* item o of the feed is recorded for today and no cycle sends its image
Settled(o) ==
    /\ o <= Len(feed)
    /\ KeyOf(o) \in TodayKeys
    /\ ~ImageSentOf(o)

\* C30: with cycles that go on and succeed, the image of every item of the
\* feed that is of today and has a universe entry is eventually sent, and
\* from some point on its key is in the lookup of the day and its image is
\* not sent again.
C30_EventualDelivery ==
    \A o \in 1..MaxFeed :
      (o <= Len(feed) /\ Qualifies(feed[o], day, NIFTY_FILTER))
        => (<>ImageSentOf(o) /\ <>[]Settled(o))

\* C31: two candidates with different names or descriptions have different
\* keys, and a candidate whose key the lookup of the day returns has a row
\* of the day with its own name and description.
C31_KeyInjective ==
    /\ \A k1, k2 \in 1..Len(companies) :
         CompositeKey(companies[k1]) = CompositeKey(companies[k2])
           => Pair(companies[k1]) = Pair(companies[k2])
    /\ \A k \in 1..Len(companies) :
         CompositeKey(companies[k]) \in TodayKeys
           => \E r \in ledger :
                /\ r.date_str = day
                /\ r.company_name = companies[k].name
                /\ r.description = companies[k].description

\* C32: the sending loop goes on to the image send of the next event only
\* from the pause of line 819.
C32_PauseBetweenEvents ==
    [][(pc' = "image" /\ idx' = idx + 1) => pc = "sleep"]_vars

\* the attempts of the retried step of the running cycle are within the
\* bound of the step
AttemptsBounded ==
    /\ pc = "fetch" => attempt <= MAX_RETRIES
    /\ pc \in {"image", "fallback", "download"} => attempt <= 3
    /\ pc = "senddoc" => attempt <= 2

\* the image send of every event of the cycle has ended at most once
ProcessedOnce ==
    \A i \in 1..Len(new_companies) : Count({"img_ok", "img_fail"}, i) <= 1

\* C33: every retried step stays within its attempt count, every event of a
\* cycle is processed once, and a started run_job reaches its end.
C33_CycleTerminates ==
    /\ [](AttemptsBounded /\ ProcessedOnce)
    /\ (pc # "idle") ~> (pc = "idle")

\* C33 witness: run_job is at its end in a cycle in which the download and
\* the text message of an event failed for good.
C33_Witness ==
    /\ pc = "done"
    /\ \E i \in 1..Len(new_companies) :
         Logged("doc_fail", i) /\ Logged("txt_fail", i)

\* C34: when the lookup of the day fails, every candidate of the cycle is
\* returned as new, and run_job goes on to render them.
C34_ReadFailureIsEmptyLedger ==
    [][FilterReadError =>
         /\ new_companies' = companies
         /\ companies # << >> => pc' = "render"]_vars

\* C34 witness: after a failed lookup run_job is about to render a candidate
\* that has a row of the day.
C34_Witness ==
    /\ pc = "render"
    /\ \E i \in 1..Len(new_companies) :
         \E r \in ledger :
           /\ r.date_str = day
           /\ r.composite_key = CompositeKey(new_companies[i])
           /\ r.company_name = new_companies[i].name
           /\ r.description = new_companies[i].description

\* config.TIMEZONE, 'Asia/Kolkata': UTC+05:30, in minutes
TIMEZONE == 330

\* the calendar date of the instant of a timestamp in the configured
\* timezone
LocalDate(date_time) == (Instant(date_time) * 60 + TIMEZONE) \div (24 * 60)

\* C39: the entries extract_companies keeps are the items whose instant, in
\* the configured timezone, is of today: every entry has that date, and every
\* item of that date with a name and a universe entry has an entry.
C39_DateInConfiguredTimezone ==
    Extracted =>
      /\ \A k \in 1..Len(companies) : LocalDate(companies[k].dateTime) = day
      /\ \A o \in 1..Len(data) :
           ( /\ data[o].dateTime.iso
             /\ LocalDate(data[o].dateTime) = day
             /\ data[o].companyName # EmptyStr
             /\ Resolves(data[o]) )
             => \E k \in 1..Len(companies) :
                  Pair(companies[k]) = Pair(Candidate(data[o]))

\* exact and normalized-exact matching fail on the name
ExactStrategiesFail ==
    /\ api_name # EmptyStr
    /\ \A c \in nifty_companies : Lower(c) # Lower(api_name)
    /\ \A c \in nifty_companies :
         normalize_company_name(c) # normalize_company_name(api_name)

\* the shorter of the normalized name and the normalized company has at least
\* 5 characters and is a contiguous part of the other
ShorterInLonger(company) ==
    LET a == normalize_company_name(api_name)
        n == normalize_company_name(company)
        short == IF Len(a) <= Len(n) THEN a ELSE n
        long  == IF Len(a) <= Len(n) THEN n ELSE a
    IN  Len(short) >= 5 /\ Contains(long, short)

\* the companies whose normalized form holds the normalized name
Holders ==
    { c \in nifty_companies :
        Contains(normalize_company_name(c), normalize_company_name(api_name)) }

\* the companies whose normalized form, of at least 5 characters, the
\* normalized name holds
Held ==
    { c \in nifty_companies :
        /\ Len(normalize_company_name(c)) >= 5
        /\ Contains(normalize_company_name(api_name), normalize_company_name(c)) }

\* when exact and normalized-exact matching fail, the substring strategy
\* returns a company exactly when one passes its test, and that company
\* passes it; otherwise the result is that of the token strategy
SubstringOnlyIfQualified ==
    (Returned /\ ExactStrategiesFail) =>
      IF \E c \in nifty_companies : ShorterInLonger(c)
      THEN matched # Null /\ ShorterInLonger(matched)
      ELSE matched = Null \/ FourFifths(matched)

\* C35 as stated: the substring strategy returns a company only if the
\* shorter normalized form has at least 5 characters and is part of the
\* other, and a name whose normalized form exactly one company holds
\* resolves to that company.
C35_SubstringResolves ==
    /\ SubstringOnlyIfQualified
    /\ (Returned /\ api_name # EmptyStr /\ Cardinality(Holders) = 1)
         => matched \in Holders

\* C35 amended: the same test, and a name whose normalized form has at least
\* 5 characters and is held by exactly one company resolves to that company
\* or to a company of at least 5 characters that the name holds.
C35_SubstringResolvesLongNames ==
    /\ SubstringOnlyIfQualified
    /\ ( /\ Returned
         /\ api_name # EmptyStr
         /\ Cardinality(Holders) = 1
         /\ Len(normalize_company_name(api_name)) >= 5 )
         => matched \in Holders \cup Held

\* C35 witness: exact and normalized-exact matching fail on a name of at
\* least 5 characters that one company holds, and that company is the result.
C35_Witness ==
    /\ Returned
    /\ ExactStrategiesFail
    /\ Len(normalize_company_name(api_name)) >= 5
    /\ Holders = { matched }
    /\ Held = {}

\* C36: the result is the same under every order of the set and every dict
\* load_nifty_500 can build from it.
C36_MatchReproducible ==
    Returned =>
      \A index \in CompanyMaps(nifty_companies) :
        fuzzy_match_company(api_name, nifty_companies, index) = { matched }

\* s ends with t
EndsWith(s, t) ==
    Len(s) >= Len(t) /\ SubSeq(s, Len(s) - Len(t) + 1, Len(s)) = t

\* the legal-entity suffix words of the names of the model
SuffixWords == { Ltd, Limited, Co, Company }

\* s ends with a legal-entity suffix word after a blank
EndsWithSuffixWord(s) == \E w \in SuffixWords : EndsWith(s, Space \o w)

\* the name, lower case and trimmed, has two words or more
MultiWord(name) ==
    LET s == Strip(Lower(name))
    IN  \E k \in 2..(Len(s) - 1) :
          IsSpace(s[k]) /\ IsWordChar(s[k - 1]) /\ IsWordChar(s[k + 1])

\* a name that ends with a word which is no legal-entity suffix
PlainName(name) ==
    LET s == Lower(name)
    IN  /\ s # << >>
        /\ IsWordChar(s[Len(s)])
        /\ \A w \in SuffixWords :
             ~EndsWith(s, w) \/ (Len(s) > Len(w) /\ IsWordChar(s[Len(s) - Len(w)]))

\* C37: a name that does not end in a legal-entity suffix normalizes to the
\* same string with ' Ltd', ' Ltd.' and ' Limited' after it, and the
\* normalized form of a name of several words does not end with a
\* legal-entity suffix word.
C37_SuffixesStripped ==
    Len(forms) >= 1 =>
      /\ PlainName(api_name) =>
           /\ normalize_company_name(api_name \o Space \o Ltd) = forms[1]
           /\ normalize_company_name(api_name \o Space \o Ltd \o Dot) = forms[1]
           /\ normalize_company_name(api_name \o Space \o Limited) = forms[1]
      /\ MultiWord(api_name) => ~EndsWithSuffixWord(forms[1])

\* abbr stands in s at position k as a whole word
WholeWordAt(s, k, abbr) ==
    /\ k + Len(abbr) - 1 <= Len(s)
    /\ SubSeq(s, k, k + Len(abbr) - 1) = abbr
    /\ k = 1 \/ ~IsWordChar(s[k - 1])
    /\ k + Len(abbr) > Len(s) \/ ~IsWordChar(s[k + Len(abbr)])

\* abbr is a whole word of s
WholeWord(s, abbr) == \E k \in 1..Len(s) : WholeWordAt(s, k, abbr)

\* abbr stands in s as a part of a longer word
PartOfWord(s, abbr) ==
    \E k \in 1..Len(s) :
      /\ k + Len(abbr) - 1 <= Len(s)
      /\ SubSeq(s, k, k + Len(abbr) - 1) = abbr
      /\ ~WholeWordAt(s, k, abbr)

\* every word of s from position k on is a legal-entity suffix word
OnlySuffixWordsFrom(s, k) ==
    \A i \in k..Len(s) : \A j \in i..Len(s) :
      ( /\ \A m \in i..j : IsWordChar(s[m])
        /\ i = 1 \/ ~IsWordChar(s[i - 1])
        /\ j = Len(s) \/ ~IsWordChar(s[j + 1]) )
        => SubSeq(s, i, j) \in SuffixWords

=============================================================================
